---- MODULE Spec2Model ----
(***************************************************************************)
(* Model of usbmachine.py: the Android Open Accessory negotiation          *)
(* (App.prepare_device and its three commands) followed by the bulk        *)
(* receive loop (App.accept_data) or send loop (App.write).                *)
(*                                                                         *)
(* The USB stack, the bus and the operator are the environment: every      *)
(* transfer's outcome (returned value or raised exception) is chosen       *)
(* nondeterministically from a small set.  `trace` records, in program     *)
(* order, every call the program makes to the USB layer and every status   *)
(* line prepare_device prints.  The serial-port mode (write_arduino) never  *)
(* touches the USB device and is not modelled.                             *)
(***************************************************************************)
EXTENDS Integers, Sequences, FiniteSets, TLC

VARIABLES pc, mode, bus, device, selected, strIdx, intf, ep, xfers, err,
          trace

vars == <<pc, mode, bus, device, selected, strIdx, intf, ep, xfers, err,
         trace>>

(* ------------------------------ bounds --------------------------------- *)
MaxBus == 2        \* devices attached to the bus at start
MaxVersion == 3    \* protocol versions 0..MaxVersion are reported
MaxXfers == 2      \* iterations of a transfer loop that are explored

(* ---------------------------- program data ----------------------------- *)
\* the payloads of send_string, by str_id
IdentityStrings ==
    <<"dvpashkevich",
      "PyAndroidCompanion",
      "A Python based Android accessory companion",
      "0.1.0",
      "https://github.com/alien-agent/USB-Communicator-Script",
      "0000-0000-0000">>

\* the commands of prepare_device, in list order (indices 0..2)
CommandNames == <<"Verifying protocol", "Sending accessory parameters",
                  "Triggering accessory mode">>

ENDPOINT_IN == 128
ENDPOINT_OUT == 0

\* usb.util.endpoint_direction: address & 0x80
endpoint_direction(address) == ((address \div 128) % 2) * 128

\* "no object": App.device = None, find() found nothing
None == [phys |-> 0, addr |-> 0, acc |-> FALSE]
\* find_descriptor found nothing
NoEndpoint == -1

(* ------------------------------ the bus -------------------------------- *)
\* A device on the bus: the physical unit, its current bus address and
\* whether it enumerates in accessory mode.
Dev(p, a, m) == [phys |-> p, addr |-> a, acc |-> m]

\* sequences of distinct elements of S
RECURSIVE Arrangements(_)
Arrangements(S) ==
    {<<>>} \cup
    UNION {{<<x>> \o t : t \in Arrangements(S \ {x})} : x \in S}

InitBuses == Arrangements({Dev(p, p, FALSE) : p \in 1..MaxBus})

Without(b, d) == SelectSeq(b, LAMBDA x : x # d)

\* the device after it dropped off the bus and came back as an accessory
ReEnumerated(d) == Dev(d.phys, d.addr + MaxBus, TRUE)

\* What the bus can look like one second after the mode trigger was
\* acknowledged: the device ignored it, vanished, or re-enumerated (and is
\* listed before or after the other devices).
SettleOutcomes(b, d) ==
    {b, Without(b, d),
     <<ReEnumerated(d)>> \o Without(b, d),
     Without(b, d) \o <<ReEnumerated(d)>>}

\* usb.core.find() without arguments: the first device of the bus, or None
Find(b) == IF b = <<>> THEN None ELSE b[1]

\* lst[int(ind)] : Python indexing, negative indices count from the end
ValidIndex(lst, ind) == ind >= -Len(lst) /\ ind < Len(lst)
PyIndex(lst, ind) == IF ind >= 0 THEN lst[ind + 1] ELSE lst[Len(lst) + ind + 1]

(* ------------------------------ the trace ------------------------------ *)
Ev(op, req, idx, exc, ret) ==
    [op |-> op, req |-> req, idx |-> idx, exc |-> exc, ret |-> ret]

Call(op, exc) == Ev(op, 0, 0, exc, 0)
Ctrl(req, idx, exc, ret) == Ev("ctrl_transfer", req, idx, exc, ret)
\* console output of prepare_device for command k: "step", "OK" or "FAIL"
Report(what, k) == Ev(what, 0, k, "none", 0)

Exceptions == {"USBError", "KeyboardInterrupt"}

(* --------------------------- prepare_device ---------------------------- *)
\* a loop without the try: an exception is neither reported nor turned into
\* sys.exit(1), it leaves prepare_device
AfterCommandUnreported(k, raised, next) ==
    IF raised THEN [out |-> <<>>, pc |-> "crashed"]
              ELSE [out |-> <<Report("OK", k)>>, pc |-> next]

\* try: command() / except: FAIL, sys.exit(1) / else: OK
\* the events printed after the command, and where the program goes
AfterCommand(k, raised, next) ==
    IF raised THEN [out |-> <<Report("FAIL", k)>>, pc |-> "exited"]
              ELSE [out |-> <<Report("OK", k)>>, pc |-> next]

\* "except Exception:" in place of the bare except: KeyboardInterrupt is
\* not caught and leaves prepare_device
AbortUncaughtInterrupt(k, events, exc) ==
    IF exc = "KeyboardInterrupt"
    THEN /\ trace' = trace \o events
         /\ pc' = "crashed"
         /\ err' = exc
    ELSE /\ trace' = trace \o events \o <<Report("FAIL", k)>>
         /\ pc' = "exited"
         /\ err' = exc

\* a handler without sys.exit(1): the for loop goes on to the next command
AbortContinues(k, events, exc) ==
    /\ trace' = trace \o events \o <<Report("FAIL", k)>>
    /\ pc' = IF k = 0 THEN "send_string"
             ELSE IF k = 1 THEN "trigger" ELSE "discover"
    /\ err' = exc

\* a command that raises in the middle: the bare except reports and exits
Abort(k, events, exc) ==
    /\ trace' = trace \o events \o AfterCommand(k, TRUE, "exited").out
    /\ pc' = AfterCommand(k, TRUE, "exited").pc
    /\ err' = exc

Init ==
    /\ pc = "select"
    /\ mode \in {"read", "write"}
    /\ bus \in InitBuses
    /\ device = None
    /\ selected = None
    /\ strIdx = 0
    /\ intf = <<>>
    /\ ep = NoEndpoint
    /\ xfers = 0
    /\ err = "none"
    /\ trace = <<>>

(* ---------------------------- select_device ---------------------------- *)
\* while not lst: lst = list(find(find_all=True)); sleep(1)
WaitForDevices ==
    /\ pc = "select"
    /\ bus = <<>>
    /\ bus' \in InitBuses
    /\ UNCHANGED <<pc, mode, device, selected, strIdx, intf, ep, xfers, err, trace>>

SelectDevice ==
    /\ pc = "select"
    /\ bus # <<>>
    /\ IF Len(bus) = 1
       THEN /\ device' = bus[1]
            /\ selected' = bus[1]
            /\ pc' = "set_configuration"
            /\ err' = err
       ELSE \E ind \in (0 - Len(bus) - 1) .. Len(bus) :
              IF ValidIndex(bus, ind)
              THEN /\ device' = PyIndex(bus, ind)
                   /\ selected' = PyIndex(bus, ind)
                   /\ pc' = "set_configuration"
                   /\ err' = err
              ELSE /\ pc' = "crashed"
                   /\ err' = "IndexError"
                   /\ UNCHANGED <<device, selected>>
    /\ UNCHANGED <<mode, bus, strIdx, intf, ep, xfers, trace>>

(* ----------------------------- set_protocol ---------------------------- *)
EBUSY == 16     \* errno of "already configured"

\* the errno values a failing set_configuration is explored with:
\* EBUSY and ENODEV
Errnos == {EBUSY, 19}

\* a handler that swallows every exception of set_configuration
ConfigurationNeverRaises(exc, errno) == FALSE

\* self.device.set_configuration() inside try/except USBError:
\* "if e.errno == 16: pass" is followed by an unconditional "raise", so
\* every exception leaves set_protocol, whatever its errno
ConfigurationRaises(exc, errno) ==
    IF exc = "USBError"
    THEN IF errno = EBUSY THEN TRUE ELSE TRUE
    ELSE exc # "none"

SetConfiguration ==
    /\ pc = "set_configuration"
    /\ \E exc \in {"none"} \cup Exceptions :
       \E errno \in IF exc = "USBError" THEN Errnos ELSE {0} :
         LET events == <<Report("step", 0),
                         Ev("set_configuration", 0, 0, exc, errno)>>
         IN IF ConfigurationRaises(exc, errno)
            THEN Abort(0, events, exc)
            ELSE /\ trace' = trace \o events
                 /\ pc' = "check_protocol"
                 /\ err' = err
    /\ UNCHANGED <<mode, bus, device, selected, strIdx, intf, ep, xfers>>

\* the 16-bit words the device may answer request 51 with: the versions
\* 0..MaxVersion, and two words whose high byte is set
Words == (0..MaxVersion) \cup {256, 258}

\* ret = ctrl_transfer(0xC0, 51, 0, 0, 2): the two bytes, little endian
RetBytes(w) == <<w % 256, w \div 256>>

\* protocol = ret[0]
Protocol(w) == RetBytes(w)[1]

\* a comparison that lets version 1 through
UnsupportedProtocolBelowOne(protocol) == protocol < 1

\* if protocol < 2: raise ValueError
UnsupportedProtocol(protocol) == protocol < 2

\* exc "IndexError" stands for an empty answer, on which ret[0] raises
CheckProtocol ==
    /\ pc = "check_protocol"
    /\ \E exc \in {"none", "IndexError"} \cup Exceptions :
       \E w \in IF exc = "none" THEN Words ELSE {0} :
         LET events == <<Ctrl(51, 0, exc, w)>>
         IN IF exc # "none"
            THEN Abort(0, events, exc)
            ELSE IF UnsupportedProtocol(Protocol(w))
            THEN Abort(0, events, "ValueError")
            ELSE /\ trace' = trace \o events
                             \o AfterCommand(0, FALSE, "send_string").out
                 /\ pc' = AfterCommand(0, FALSE, "send_string").pc
                 /\ err' = err
    /\ UNCHANGED <<mode, bus, device, selected, strIdx, intf, ep, xfers>>

(* ----------------------- send_accessory_parameters --------------------- *)
\* the byte counts a device may acknowledge for a payload of n bytes
AckCounts(n) == {0, n - 1, n, n + 1}

\* a comparison that never rejects an acknowledgment
MismatchNever(ret, str_val) == FALSE

\* a comparison that rejects only a short acknowledgment
MismatchShortOnly(ret, str_val) == ret < Len(str_val)

\* if ret != len(str_val): raise ValueError
Mismatch(ret, str_val) == ret # Len(str_val)

\* a sequence that stops after the string with index 4
MoreStringsUpToFour(str_id) == str_id + 1 < 5

\* send_string(0, ..) .. send_string(5, ..): is there a call after str_id
MoreStrings(str_id) == str_id + 1 < Len(IdentityStrings)

\* one send_string(str_id, str_val) call; strIdx is the str_id of the next
\* call of the fixed sequence send_string(0, ..) .. send_string(5, ..)
SendString ==
    /\ pc = "send_string"
    /\ LET str_id == strIdx
           str_val == IdentityStrings[strIdx + 1]
       IN \E exc \in {"none"} \cup Exceptions :
          \E ret \in IF exc = "none" THEN AckCounts(Len(str_val)) ELSE {0} :
            LET events == (IF str_id = 0 THEN <<Report("step", 1)>> ELSE <<>>)
                          \o <<Ctrl(52, str_id, exc, ret)>>
            IN IF exc # "none"
               THEN Abort(1, events, exc) /\ strIdx' = strIdx
               ELSE IF Mismatch(ret, str_val)
               THEN Abort(1, events, "ValueError") /\ strIdx' = strIdx
               ELSE IF MoreStrings(str_id)
               THEN /\ trace' = trace \o events
                    /\ strIdx' = strIdx + 1
                    /\ UNCHANGED <<pc, err>>
               ELSE /\ trace' = trace \o events
                                \o AfterCommand(1, FALSE, "trigger").out
                    /\ pc' = AfterCommand(1, FALSE, "trigger").pc
                    /\ strIdx' = strIdx + 1
                    /\ err' = err
    /\ UNCHANGED <<mode, bus, device, selected, intf, ep, xfers>>

(* --------------------------- set_accessory_mode ------------------------ *)
\* a check that accepts every acknowledgment of request 53
TriggerNeverRefused(ret) == FALSE

\* if ret: raise ValueError
TriggerRefused(ret) == ret # 0

\* ret = ctrl_transfer(0x40, 53, 0, 0, '', 0)
TriggerAccessoryMode ==
    /\ pc = "trigger"
    /\ \E exc \in {"none"} \cup Exceptions :
       \E ret \in IF exc = "none" THEN {0, 1} ELSE {0} :
         LET events == <<Report("step", 2), Ctrl(53, 0, exc, ret)>>
         IN IF exc # "none"
            THEN Abort(2, events, exc)
            ELSE IF TriggerRefused(ret)
            THEN Abort(2, events, "ValueError")
            ELSE /\ trace' = trace \o events
                 /\ pc' = "settle"
                 /\ err' = err
    /\ UNCHANGED <<mode, bus, device, selected, strIdx, intf, ep, xfers>>

\* time.sleep(1), during which the device may leave the bus and come back
Settle ==
    /\ pc = "settle"
    /\ bus' \in SettleOutcomes(bus, device)
    /\ \E exc \in {"none", "KeyboardInterrupt"} :
         IF exc # "none"
         THEN Abort(2, <<>>, exc)
         ELSE /\ pc' = "rescan"
              /\ UNCHANGED <<trace, err>>
    /\ UNCHANGED <<mode, device, selected, strIdx, intf, ep, xfers>>

\* a check that takes a found device for a lost one and the reverse
NotFoundInverted(dev) == dev # None

\* a check that accepts an empty re-scan
NotFoundNever(dev) == FALSE

\* if not dev: raise ValueError
NotFound(dev) == dev = None

\* an assignment that is missing: the handle stays the one selected
HandleKept(dev, old) == old

\* self.device = dev
HandleAfterRescan(dev, old) == dev

\* dev = usb.core.find(); self.device = dev
\* the find event carries the bus address of the device found (0: none)
Rescan ==
    /\ pc = "rescan"
    /\ \E exc \in {"none"} \cup Exceptions :
         LET dev == Find(bus)
             events == <<Ev("find", 0, 0, exc,
                            IF exc = "none" THEN dev.addr ELSE 0)>>
         IN IF exc # "none"
            THEN Abort(2, events, exc) /\ device' = device
            ELSE IF NotFound(dev)
            THEN Abort(2, events, "ValueError") /\ device' = device
            ELSE /\ device' = HandleAfterRescan(dev, device)
                 /\ trace' = trace \o events
                             \o AfterCommand(2, FALSE, "discover").out
                 /\ pc' = AfterCommand(2, FALSE, "discover").pc
                 /\ err' = err
    /\ UNCHANGED <<mode, bus, selected, strIdx, intf, ep, xfers>>

(* ------------------------ endpoint discovery --------------------------- *)
\* the endpoint descriptors (bEndpointAddress) an interface may list:
\* 0x01 is a bulk OUT endpoint, 0x81 a bulk IN endpoint
EndpointLists == Arrangements({1, 129})

\* usb.util.find_descriptor(intf, custom_match=...): the first descriptor
\* whose direction is the one asked for, or None
RECURSIVE find_descriptor(_, _)
find_descriptor(eps, direction) ==
    IF eps = <<>> THEN NoEndpoint
    ELSE IF endpoint_direction(Head(eps)) = direction THEN Head(eps)
    ELSE find_descriptor(Tail(eps), direction)

\* a write that looks for the direction accept_data looks for
WantedDirectionAlwaysIn(m) == ENDPOINT_IN

\* accept_data looks for ENDPOINT_IN, write for ENDPOINT_OUT
WantedDirection(m) == IF m = "read" THEN ENDPOINT_IN ELSE ENDPOINT_OUT

\* main: "if mode == AppMode.Write: app.write() else: app.accept_data()",
\* up to the "while True" of the function called
Discover ==
    /\ pc = "discover"
    /\ \E exc \in {"none"} \cup Exceptions :
         /\ trace' = trace \o
              <<Ev("get_active_configuration", device.addr, 0, exc, 0)>>
         /\ IF exc # "none"
            THEN /\ pc' = "crashed"
                 /\ err' = exc
                 /\ UNCHANGED <<intf, ep>>
            ELSE \E eps \in EndpointLists :
                 /\ intf' = eps
                 /\ ep' = find_descriptor(eps, WantedDirection(mode))
                 /\ pc' = IF mode = "write" THEN "write_loop" ELSE "read_loop"
                 /\ err' = err
    /\ UNCHANGED <<mode, bus, device, selected, strIdx, xfers>>

(* ------------------------------ accept_data ---------------------------- *)
\* where the loop goes after "except KeyboardInterrupt:" ran to its end:
\* the handler has no break, so the "while True" goes round again
AfterInterrupt == "read_loop"

\* where the run goes after "except usb.core.USBError": the error is
\* printed, "break" leaves the loop, accept_data and main return
AfterTransportErrorContinue == "read_loop"

AfterTransportError == "returned"

\* a handler that answers every exception of the read with the detach
DetachOnAny(exc) == exc \in Exceptions

\* "except KeyboardInterrupt:" is the clause that detaches
DetachOn(exc) == exc = "KeyboardInterrupt"

\* one iteration of "while True: try: data = ep_in.read(1, timeout=0) ..."
\* exc "IndexError" stands for a read that returned no byte (data[0] raises)
\* A bulk event carries the bus address of the device it is issued on: the
\* endpoint belongs to self.device, which nothing assigns after
\* set_accessory_mode.
ReadStep ==
    /\ pc = "read_loop"
    /\ xfers < MaxXfers
    /\ xfers' = xfers + 1
    /\ IF ep = NoEndpoint
       THEN \* None.read: AttributeError, caught by neither except clause
            /\ pc' = "crashed"
            /\ err' = "AttributeError"
            /\ trace' = trace
       ELSE \E exc \in {"none", "IndexError"} \cup Exceptions :
            LET rd == Ev("read", device.addr, ep, exc, 0)
            IN IF exc = "none"
               THEN /\ trace' = trace \o <<rd>>
                    /\ UNCHANGED <<pc, err>>
               ELSE IF exc = "IndexError"
               THEN /\ trace' = trace \o <<rd>>
                    /\ pc' = "crashed"
                    /\ err' = exc
               ELSE IF DetachOn(exc)
               THEN \* self.device.detach_kernel_driver(0)
                    \E dexc \in {"none", "USBError"} :
                      /\ trace' = trace \o
                           <<rd, Ev("detach_kernel_driver", device.addr, 0,
                                    dexc, 0)>>
                      /\ IF dexc = "none"
                         THEN pc' = AfterInterrupt /\ err' = err
                         ELSE pc' = "crashed" /\ err' = dexc
               ELSE \* usb.core.USBError
                    /\ trace' = trace \o <<rd>>
                    /\ pc' = AfterTransportError
                    /\ err' = exc
    /\ UNCHANGED <<mode, bus, device, selected, strIdx, intf, ep>>

(* --------------------------------- write ------------------------------- *)
\* a loop that swallows the failure of a write and asks for the next line
AfterWriteErrorContinue == "write_loop"

\* ep_out.write is not inside a try: its exception leaves write and main
AfterWriteError == "crashed"

\* one iteration of "while True: message = input(..); ep_out.write(message)"
WriteStep ==
    /\ pc = "write_loop"
    /\ xfers < MaxXfers
    /\ xfers' = xfers + 1
    /\ \E iexc \in {"none", "KeyboardInterrupt", "EOFError"} :
       LET inp == Call("input", iexc)
       IN IF iexc # "none"
          THEN /\ trace' = trace \o <<inp>>
               /\ pc' = "crashed"
               /\ err' = iexc
          ELSE IF ep = NoEndpoint
          THEN \* None.write: AttributeError
               /\ trace' = trace \o <<inp>>
               /\ pc' = "crashed"
               /\ err' = "AttributeError"
          ELSE \E exc \in {"none"} \cup Exceptions :
               /\ trace' = trace \o
                    <<inp, Ev("write", device.addr, ep, exc, 0)>>
               /\ IF exc = "none"
                  THEN UNCHANGED <<pc, err>>
                  ELSE pc' = AfterWriteError /\ err' = exc
    /\ UNCHANGED <<mode, bus, device, selected, strIdx, intf, ep>>

Next ==
    \/ WaitForDevices
    \/ SelectDevice
    \/ SetConfiguration
    \/ CheckProtocol
    \/ SendString
    \/ TriggerAccessoryMode
    \/ Settle
    \/ Rescan
    \/ Discover
    \/ ReadStep
    \/ WriteStep

Spec == Init /\ [][Next]_vars

\* every call of the negotiation returns or raises in finite time
NegotiationFairness ==
    /\ WF_vars(SetConfiguration)
    /\ WF_vars(CheckProtocol)
    /\ WF_vars(SendString)
    /\ WF_vars(TriggerAccessoryMode)
    /\ WF_vars(Settle)
    /\ WF_vars(Rescan)

FairSpec == Spec /\ NegotiationFairness

(* ======================= properties of the trace ======================= *)
IsCtrl(e, req) == e.op = "ctrl_transfer" /\ e.req = req
Returned(e) == e.exc = "none"
Positions == DOMAIN trace
Occurrences(P(_)) == Cardinality({i \in Positions : P(trace[i])})
Issued(P(_)) == \E i \in Positions : P(trace[i])
IssuedAfter(i, P(_)) == \E j \in Positions : j > i /\ P(trace[j])
FollowedBy(i, e) == i < Len(trace) /\ trace[i + 1] = e

IsIdentityWrite(e) == IsCtrl(e, 52)
IsTrigger(e) == IsCtrl(e, 53)
IsFind(e) == e.op = "find"
IsBulk(e) == e.op \in {"read", "write"}
IsBulkRead(e) == e.op = "read"
IsInput(e) == e.op = "input"
IsDataPhase(e) ==
    e.op \in {"get_active_configuration", "read", "write", "input"}

\* the run ended in sys.exit(1) right after FAIL was reported for command k
FailedAt(i, k) ==
    /\ FollowedBy(i, Report("FAIL", k))
    /\ Len(trace) = i + 1
    /\ pc = "exited"

\* all three commands of prepare_device were reported OK
NegotiationSucceeded == Issued(LAMBDA e : e = Report("OK", 2))

(* C1: once set_configuration succeeded, a protocol version v read with    *)
(* request 51 lets the negotiation go on to the identity strings iff       *)
(* v >= 2; for v < 2 the run fails on a ValueError and neither request 52  *)
(* nor request 53 is ever issued.                                          *)
C1_ProtocolGate ==
    \A i \in Positions :
      IsCtrl(trace[i], 51) /\ Returned(trace[i]) =>
        LET v == trace[i].ret % 256
        IN /\ Issued(LAMBDA e : e.op = "set_configuration" /\ Returned(e))
           /\ (v >= 2 <=> FollowedBy(i, Report("OK", 0)))
           /\ (v < 2 => /\ FailedAt(i, 0)
                        /\ err = "ValueError"
                        /\ ~Issued(IsIdentityWrite)
                        /\ ~Issued(IsTrigger))

C1_Witness ==
    /\ \E i \in Positions :
         IsCtrl(trace[i], 51) /\ Returned(trace[i]) /\ trace[i].ret = 1
    /\ pc = "exited"

(* C2: a set_configuration that fails with errno 16 ("already              *)
(* configured") is followed by the protocol-version read, like a           *)
(* successful one; a failure with any other errno ends the run.            *)
C2_AlreadyConfiguredIsSuccess ==
    \A i \in Positions :
      trace[i].op = "set_configuration" /\ trace[i].exc = "USBError" =>
        IF trace[i].ret = EBUSY
        THEN \/ i = Len(trace) /\ pc = "check_protocol"
             \/ i < Len(trace) /\ IsCtrl(trace[i + 1], 51)
        ELSE FailedAt(i, 0)

(* C3: an identity-string write whose acknowledged byte count differs from *)
(* the count sent ends the run: no later identity string, no mode trigger  *)
(* and no data-phase operation follows it.                                 *)
C3_StopAtFirstMismatch ==
    \A i \in Positions :
      /\ IsIdentityWrite(trace[i])
      /\ Returned(trace[i])
      /\ trace[i].ret # Len(IdentityStrings[trace[i].idx + 1])
      => /\ FailedAt(i, 1)
         /\ ~IssuedAfter(i, IsIdentityWrite)
         /\ ~Issued(IsTrigger)
         /\ ~Issued(IsDataPhase)

C3_Witness ==
    \E i \in Positions :
      /\ IsIdentityWrite(trace[i])
      /\ Returned(trace[i])
      /\ trace[i].idx = 2
      /\ trace[i].ret # Len(IdentityStrings[3])
      /\ pc = "exited"

\* the string with str_id k was written and acknowledged in full
Acked(k) ==
    Issued(LAMBDA e : /\ IsIdentityWrite(e)
                      /\ Returned(e)
                      /\ e.idx = k
                      /\ e.ret = Len(IdentityStrings[k + 1]))

\* send_accessory_parameters has returned or raised
SendIdentityOver ==
    pc \notin {"select", "set_configuration", "check_protocol", "send_string"}

PastSendIdentity == Issued(LAMBDA e : e = Report("OK", 1))

(* C4 as stated: the negotiation gets past the identity strings iff the    *)
(* five strings with indices 0..4 were each acknowledged in full.          *)
C4_FiveStringsDecide ==
    SendIdentityOver => (PastSendIdentity <=> \A k \in 0..4 : Acked(k))

(* C4 as amended: the negotiation gets past the identity strings iff the   *)
(* six strings with indices 0..5 (the serial number included) were each    *)
(* acknowledged in full.                                                   *)
C4_SixStringsDecide ==
    SendIdentityOver => (PastSendIdentity <=> \A k \in 0..5 : Acked(k))

C4_Witness ==
    /\ PastSendIdentity
    /\ \A k \in 0..5 : Acked(k)
    /\ pc = "trigger"

\* the operation recorded by e failed
Failed(e) ==
    \/ ~Returned(e)
    \/ IsCtrl(e, 51) /\ e.ret % 256 < 2
    \/ IsCtrl(e, 52) /\ e.ret # Len(IdentityStrings[e.idx + 1])
    \/ IsCtrl(e, 53) /\ e.ret # 0
    \/ IsFind(e) /\ e.ret = 0

IsNegotiationOp(e) ==
    e.op \in {"set_configuration", "ctrl_transfer", "find"}

(* C5: no negotiation operation is issued twice in a run, and the first    *)
(* negotiation operation that fails is followed by the FAIL report and the *)
(* exit: no negotiation operation and no bulk transfer comes after it.     *)
C5_OnceAndAbort ==
    /\ \A i, j \in Positions :
         /\ IsNegotiationOp(trace[i])
         /\ trace[i].op = trace[j].op
         /\ trace[i].req = trace[j].req
         /\ trace[i].idx = trace[j].idx
         => i = j
    /\ \A i \in Positions :
         IsNegotiationOp(trace[i]) /\ Failed(trace[i]) =>
           /\ \E k \in 0..2 : FailedAt(i, k)
           /\ ~IssuedAfter(i, IsNegotiationOp)
           /\ ~Issued(IsBulk)

C5_Witness ==
    /\ \E i \in Positions :
         trace[i].op = "set_configuration" /\ trace[i].exc = "USBError"
    /\ pc = "exited"

(* C6: a non-zero acknowledgment of request 53 ends the run with a         *)
(* ValueError: the bus is not re-scanned, the device handle is the one     *)
(* selected, and no data-phase operation is issued.                        *)
C6_TriggerRefusedAborts ==
    \A i \in Positions :
      IsTrigger(trace[i]) /\ Returned(trace[i]) /\ trace[i].ret # 0 =>
        /\ FailedAt(i, 2)
        /\ err = "ValueError"
        /\ ~Issued(IsFind)
        /\ device = selected
        /\ ~Issued(IsDataPhase)

C6_Witness ==
    /\ \E i \in Positions :
         IsTrigger(trace[i]) /\ Returned(trace[i]) /\ trace[i].ret # 0
    /\ pc = "exited"

\* the settle interval after an accepted trigger was interrupted
SettleInterrupted ==
    \E i \in Positions :
      /\ IsTrigger(trace[i]) /\ Returned(trace[i]) /\ trace[i].ret = 0
      /\ FollowedBy(i, Report("FAIL", 2))

TriggerAccepted ==
    Issued(LAMBDA e : IsTrigger(e) /\ Returned(e) /\ e.ret = 0)

(* C7: after an accepted mode trigger and the settle interval the bus is   *)
(* scanned once and never again; a scan that finds no device ends the run  *)
(* with a ValueError, leaves the handle as selected and is followed by no  *)
(* bulk transfer.                                                          *)
C7_DeviceLostIsTerminal ==
    /\ Occurrences(IsFind) <= 1
    /\ Issued(IsFind) => TriggerAccepted
    /\ (TriggerAccepted /\ pc \notin {"settle", "rescan"} /\ ~SettleInterrupted
          => Occurrences(IsFind) = 1)
    /\ \A i \in Positions :
         IsFind(trace[i]) /\ Returned(trace[i]) /\ trace[i].ret = 0 =>
           /\ FailedAt(i, 2)
           /\ err = "ValueError"
           /\ device = selected
           /\ ~Issued(IsBulk)

C7_Witness ==
    /\ \E i \in Positions :
         IsFind(trace[i]) /\ Returned(trace[i]) /\ trace[i].ret = 0
    /\ pc = "exited"
    /\ bus = <<>>

(* C8: whenever the negotiation succeeded, the handle is the selected      *)
(* device re-enumerated in accessory mode: the bus lists exactly one such  *)
(* device, and the handle's address differs from the one it had before the *)
(* trigger.                                                                *)
C8_HandleIsReEnumeratedDevice ==
    NegotiationSucceeded =>
      /\ device.phys = selected.phys
      /\ device.acc
      /\ device.addr # selected.addr
      /\ Cardinality({i \in DOMAIN bus :
                        bus[i].phys = selected.phys /\ bus[i].acc}) = 1

\* discovery is over
Discovered == pc \in {"read_loop", "write_loop", "returned"} \/
              (pc = "crashed" /\ Issued(LAMBDA e :
                   e.op = "get_active_configuration" /\ Returned(e)))

HasWantedEndpoint ==
    \E i \in DOMAIN intf : endpoint_direction(intf[i]) = WantedDirection(mode)

(* C9: the endpoint chosen has direction IN in receive mode and OUT in     *)
(* send mode; when the interface lists no endpoint of that direction the   *)
(* run fails at discovery, before the transfer loop does anything: no bulk *)
(* read is attempted, no input line is requested, and the run does not end *)
(* normally.                                                               *)
C9_EndpointNotFoundAtDiscovery ==
    /\ ep # NoEndpoint =>
         endpoint_direction(ep) = (IF mode = "read" THEN 128 ELSE 0)
    /\ Discovered /\ ~HasWantedEndpoint =>
         /\ ~Issued(IsBulkRead)
         /\ ~Issued(IsInput)
         /\ pc # "returned"

(* C10: a bulk read interrupted by KeyboardInterrupt is followed by a      *)
(* detach_kernel_driver(0) and then by the clean end of the receive loop,  *)
(* whether the detach succeeded or not: no bulk read comes after the       *)
(* interrupt and the run does not end in an uncaught exception.            *)
C10_InterruptEndsReceiveLoop ==
    \A i \in Positions :
      IsBulkRead(trace[i]) /\ trace[i].exc = "KeyboardInterrupt" =>
        /\ i < Len(trace)
        /\ trace[i + 1].op = "detach_kernel_driver"
        /\ trace[i + 1].idx = 0
        /\ ~IssuedAfter(i, IsBulkRead)
        /\ pc = "returned"

(* C11: a bulk read that fails with a USBError is the last operation of    *)
(* the run: the error is reported, the receive loop is left and no further *)
(* bulk read is attempted.                                                 *)
C11_TransportErrorEndsLoop ==
    \A i \in Positions :
      IsBulkRead(trace[i]) /\ trace[i].exc = "USBError" =>
        /\ i = Len(trace)
        /\ pc = "returned"
        /\ err = "USBError"

C11_Witness ==
    /\ \E i \in Positions :
         /\ IsBulkRead(trace[i]) /\ trace[i].exc = "USBError"
         /\ i > 1 /\ IsBulkRead(trace[i - 1]) /\ Returned(trace[i - 1])
    /\ pc = "returned"

IsHandover(e) == e.op = "get_active_configuration"

\* every operation of the negotiation was issued and none failed
AllStepsSucceeded ==
    /\ \A k \in 0..2 : Issued(LAMBDA e : e = Report("OK", k))
    /\ ~Issued(LAMBDA e : e.op = "FAIL")
    /\ \A j \in Positions : IsNegotiationOp(trace[j]) => ~Failed(trace[j])
    /\ Issued(LAMBDA e : e.op = "set_configuration")
    /\ Issued(LAMBDA e : IsCtrl(e, 51))
    /\ Issued(IsTrigger)
    /\ Issued(IsFind)

(* C12: a bulk transfer is issued only after every negotiation step        *)
(* succeeded, and on the device the re-scan after the trigger returned;    *)
(* the data phase takes the handle over once per run, and it is that       *)
(* handle.                                                                 *)
C12_BulkOnRescannedHandle ==
    /\ \A i \in Positions :
         IsBulk(trace[i]) \/ IsHandover(trace[i]) =>
           /\ AllStepsSucceeded
           /\ \E j \in Positions :
                /\ j < i
                /\ IsFind(trace[j])
                /\ trace[j].ret # 0
                /\ trace[j].ret = trace[i].req
    /\ Occurrences(IsHandover) <= 1
    /\ Issued(IsBulk) => Occurrences(IsHandover) = 1

C12_Witness ==
    /\ Issued(IsBulk)
    /\ device.acc
    /\ device.addr # selected.addr

\* the control transfers of the run, as <<request, wIndex>>, in order
RECURSIVE Requests(_)
Requests(t) ==
    IF t = <<>> THEN <<>>
    ELSE IF Head(t).op = "ctrl_transfer"
         THEN <<<<Head(t).req, Head(t).idx>>>> \o Requests(Tail(t))
         ELSE Requests(Tail(t))

IsPrefix(a, b) == Len(a) <= Len(b) /\ a = SubSeq(b, 1, Len(a))

(* C13 as stated: a successful negotiation issues request 51, then request *)
(* 52 with wIndex 0, 1, 2, 3, 4, then request 53, and nothing else; no     *)
(* request 52 has a wIndex outside 0..4.                                   *)
C13_FiveSlots ==
    /\ NegotiationSucceeded =>
         Requests(trace) = <<<<51, 0>>, <<52, 0>>, <<52, 1>>, <<52, 2>>,
                             <<52, 3>>, <<52, 4>>, <<53, 0>>>>
    /\ \A i \in Positions :
         IsIdentityWrite(trace[i]) => trace[i].idx \in 0..4

(* C13 as amended: a successful negotiation issues request 51, then        *)
(* request 52 with wIndex 0, 1, 2, 3, 4, 5, then request 53, and nothing   *)
(* else; the control transfers of any run are a prefix of that sequence,   *)
(* and no request 52 has a wIndex outside 0..5.                            *)
C13_SixSlots ==
    LET expected == <<<<51, 0>>, <<52, 0>>, <<52, 1>>, <<52, 2>>,
                      <<52, 3>>, <<52, 4>>, <<52, 5>>, <<53, 0>>>>
    IN /\ NegotiationSucceeded => Requests(trace) = expected
       /\ IsPrefix(Requests(trace), expected)
       /\ \A i \in Positions :
            IsIdentityWrite(trace[i]) => trace[i].idx \in 0..5

C13_Witness ==
    /\ NegotiationSucceeded
    /\ pc = "discover"
    /\ Len(Requests(trace)) = 8

IsDetach(e) == e.op = "detach_kernel_driver"
Interrupted(e) == e.exc = "KeyboardInterrupt"

(* C14 as stated: a KeyboardInterrupt raised in a negotiation operation is *)
(* not caught and not reported as FAIL; one raised in the send loop is not *)
(* caught either; in both cases no detach is attempted.                    *)
C14_InterruptUncaughtOutsideReceive ==
    /\ \A i \in Positions :
         IsNegotiationOp(trace[i]) /\ Interrupted(trace[i]) =>
           /\ ~\E k \in 0..2 : FollowedBy(i, Report("FAIL", k))
           /\ pc = "crashed"
           /\ ~Issued(IsDetach)
    /\ \A i \in Positions :
         trace[i].op \in {"input", "write"} /\ Interrupted(trace[i]) =>
           /\ i = Len(trace)
           /\ pc = "crashed"
           /\ ~Issued(IsDetach)

(* C14 as amended: a KeyboardInterrupt raised in a negotiation operation   *)
(* or in the settle interval is caught by prepare_device, reported as FAIL *)
(* of the running command and ends the run by sys.exit(1); one raised in   *)
(* the send loop is not caught and ends the run; in both cases no detach   *)
(* is attempted, and a detach only ever follows an interrupted bulk read.  *)
C14_InterruptReportedAsFail ==
    /\ \A i \in Positions :
         IsNegotiationOp(trace[i]) /\ Interrupted(trace[i]) =>
           /\ \E k \in 0..2 : FailedAt(i, k)
           /\ err = "KeyboardInterrupt"
           /\ ~Issued(IsDetach)
    /\ SettleInterrupted => pc = "exited" /\ ~Issued(IsDetach)
    /\ (pc = "exited" /\ err = "KeyboardInterrupt") =>
         trace[Len(trace)].op = "FAIL"
    /\ \A i \in Positions :
         trace[i].op \in {"input", "write"} /\ Interrupted(trace[i]) =>
           /\ i = Len(trace)
           /\ pc = "crashed"
           /\ err = "KeyboardInterrupt"
           /\ ~Issued(IsDetach)
    /\ \A i \in Positions :
         IsDetach(trace[i]) =>
           i > 1 /\ IsBulkRead(trace[i - 1]) /\ Interrupted(trace[i - 1])

C14_Witness ==
    /\ \E i \in Positions : IsCtrl(trace[i], 52) /\ Interrupted(trace[i])
    /\ pc = "exited"
    /\ err = "KeyboardInterrupt"

(* C15: a bulk write that fails is the last operation of the run: its      *)
(* exception leaves the send loop, no further line is requested and no     *)
(* further bulk write is issued.                                           *)
C15_WriteFailureEndsRun ==
    \A i \in Positions :
      trace[i].op = "write" /\ ~Returned(trace[i]) =>
        /\ i = Len(trace)
        /\ pc = "crashed"
        /\ err = trace[i].exc

C15_Witness ==
    /\ \E i \in Positions : trace[i].op = "write" /\ trace[i].exc = "USBError"
    /\ pc = "crashed"
    /\ err = "USBError"

(* C16: a run never issues both bulk reads and bulk writes: every bulk     *)
(* read is issued in receive mode on an IN endpoint, every bulk write in   *)
(* send mode on an OUT endpoint, and the mode never changes.               *)
C16_SingleDirection ==
    /\ [](/\ ~(Issued(IsBulkRead) /\ Issued(LAMBDA e : e.op = "write"))
          /\ \A i \in Positions :
               /\ IsBulkRead(trace[i]) =>
                    mode = "read" /\ (trace[i].idx \div 128) % 2 = 1
               /\ trace[i].op = "write" =>
                    mode = "write" /\ (trace[i].idx \div 128) % 2 = 0)
    /\ [][mode' = mode]_vars

C16_Witness ==
    /\ mode = "write"
    /\ Occurrences(LAMBDA e : e.op = "write" /\ Returned(e)) = 2

(* C17: a detach_kernel_driver call only ever directly follows a bulk read *)
(* that was interrupted in receive mode; none is made after a negotiation  *)
(* failure, in send mode, or right after a bulk read that failed with a    *)
(* USBError.                                                               *)
C17_DetachOnlyOnInterrupt ==
    /\ \A i \in Positions :
         IsDetach(trace[i]) =>
           /\ i > 1
           /\ IsBulkRead(trace[i - 1])
           /\ Interrupted(trace[i - 1])
           /\ mode = "read"
    /\ pc = "exited" => ~Issued(IsDetach)
    /\ mode = "write" => ~Issued(IsDetach)
    /\ \A i \in Positions :
         IsBulkRead(trace[i]) /\ trace[i].exc = "USBError" =>
           ~IssuedAfter(i, IsDetach)

C17_Witness ==
    /\ Issued(IsDetach)
    /\ pc = "read_loop"

\* the position of a program point in the negotiation
Rank(p) ==
    CASE p = "select" -> 0
      [] p = "set_configuration" -> 1
      [] p = "check_protocol" -> 2
      [] p = "send_string" -> 3
      [] p = "trigger" -> 4
      [] p = "settle" -> 5
      [] p = "rescan" -> 6
      [] OTHER -> 7

ReportedFailure ==
    /\ pc = "exited"
    /\ trace # <<>>
    /\ trace[Len(trace)].op = "FAIL"

(* C18: when every call returns or raises in finite time, a negotiation    *)
(* that has started eventually either has all three commands reported OK   *)
(* or ends the run right after a FAIL report; no step of the program goes  *)
(* back to an earlier program point or to an earlier identity string.      *)
C18_NegotiationTerminates ==
    /\ (pc = "set_configuration") ~> (NegotiationSucceeded \/ ReportedFailure)
    /\ [][Rank(pc') >= Rank(pc) /\ strIdx' >= strIdx]_vars

C18_Witness ==
    /\ ReportedFailure
    /\ strIdx = 3

IsReport(e) == e.op \in {"step", "OK", "FAIL"}

(* C19: command k is announced and reported OK only after every earlier    *)
(* command was reported OK, at most one FAIL is reported in a run, and the *)
(* FAIL report is the last event of the run.                               *)
C19_ReportsArePrefixClosed ==
    /\ \A i \in Positions :
         trace[i].op \in {"step", "OK"} =>
           \A k \in 0..(trace[i].idx - 1) :
             \E j \in Positions : j < i /\ trace[j] = Report("OK", k)
    /\ \A i \in Positions :
         trace[i].op = "OK" =>
           \E j \in Positions : j < i /\ trace[j] = Report("step", trace[i].idx)
    /\ Occurrences(LAMBDA e : e.op = "FAIL") <= 1
    /\ \A i \in Positions : trace[i].op = "FAIL" => i = Len(trace)

C19_Witness ==
    /\ Issued(LAMBDA e : e = Report("OK", 0))
    /\ Issued(LAMBDA e : e = Report("OK", 1))
    /\ trace[Len(trace)] = Report("FAIL", 2)

(* C20: once a device is selected, the handle changes only in the step     *)
(* that re-scans the bus after an accepted trigger, finds a device and     *)
(* reports the command OK; the new handle is the device found.             *)
C20_HandleReplacedOnlyByRescan ==
    [][(pc # "select" /\ device' # device) =>
         /\ pc = "rescan"
         /\ TriggerAccepted
         /\ Len(trace') = Len(trace) + 2
         /\ trace'[Len(trace) + 1].op = "find"
         /\ trace'[Len(trace) + 1].exc = "none"
         /\ trace'[Len(trace) + 1].ret # 0
         /\ trace'[Len(trace) + 1].ret = device'.addr
         /\ trace'[Len(trace) + 2] = Report("OK", 2)]_vars

C20_Witness ==
    /\ NegotiationSucceeded
    /\ device # selected
    /\ pc = "read_loop"

====
